---- MODULE Spec2Model ----
(***************************************************************************)
(* Model of solutions/rust/05-echo/code/src/resp.rs: the RESP value model, *)
(* the incremental decoder and the connection's read/write cycle.          *)
(*                                                                         *)
(* Bytes are numbers 0..255, a buffer is a sequence of bytes.  A Rust      *)
(* String is the sequence of its UTF-8 bytes.  TLC integers are 32 bit     *)
(* wide, so the 64-bit machine word of the target is modelled by a word of *)
(* WordBits bits; i64 and usize keep the same width as each other, as they *)
(* have on the 64-bit target, so casts and wrap-around behave alike.       *)
(***************************************************************************)
EXTENDS Integers, Sequences, FiniteSets, TLC

VARIABLES
    overflow_checks,  \* build profile: TRUE = debug (overflow panics), FALSE = release (wraps)
    wire,             \* bytes the peer has sent that the stream has not delivered yet
    sent,             \* history: every byte the peer sends on this connection
    buffer,           \* RespConnection.buffer
    pc,               \* "idle": no read_value call in progress, "reading": inside its loop
    result,           \* what the last read_value call returned
    last_parse,       \* history: outcome of the last parse_message inside read_value
    reads,            \* history: number of non-empty stream reads of the current call
    unconsumed,       \* history: bytes received and not consumed by a returned value
    returned,         \* history: the values read_value has returned, in order
    written,          \* bytes the stream has accepted from write_value
    wresult,          \* what the last write_value call returned
    wvalue,           \* history: the Value handed to the last write_value call
    writes,           \* history: number of write_value calls so far
    input,            \* decoder harness: the buffer handed to parse_message
    parsed,           \* decoder harness: what parse_message returned for it
    scanned,          \* decoder harness: what get_line returned for the bytes after the marker
    val,              \* value harness: the Value under test
    encoded,          \* value harness: what val.encode() returned
    command,          \* value harness: what val.to_command() returned
    decoded           \* value harness: parse_message applied to the encoding

vars == <<overflow_checks, wire, sent, buffer, pc, result, last_parse, reads,
          unconsumed, returned, written, wresult, wvalue, writes, input, parsed, scanned, val, encoded,
          command, decoded>>

(***************************************************************************)
(* Bounds of the model.                                                    *)
(***************************************************************************)
MaxLen == 4        \* every byte string up to this length is a decoder input
MaxTail == 4       \* bytes following a bulk length line in the bulk inputs
MaxWrites == 1     \* write_value calls per connection

WordBits == 16     \* width of the modelled machine word (usize, i64)

(***************************************************************************)
(* Bytes.                                                                  *)
(***************************************************************************)
CARRIAGE_RETURN == 13
NEWLINE == 10

Ord(c) ==
    CASE c = "+" -> 43 [] c = "-" -> 45 [] c = "*" -> 42 [] c = "$" -> 36
      [] c = "%" -> 37 [] c = "0" -> 48 [] c = "1" -> 49 [] c = "2" -> 50
      [] c = "3" -> 51 [] c = "4" -> 52 [] c = "5" -> 53 [] c = "6" -> 54
      [] c = "7" -> 55 [] c = "8" -> 56 [] c = "9" -> 57 [] c = "a" -> 97
      [] c = "b" -> 98 [] c = "x" -> 120
      [] c = "CR" -> CARRIAGE_RETURN [] c = "LF" -> NEWLINE
      [] c = "C3" -> 195 [] c = "A9" -> 169 [] c = "FF" -> 255

Bytes(s) == [i \in DOMAIN s |-> Ord(s[i])]

CRLF == <<CARRIAGE_RETURN, NEWLINE>>

\* buffer[from..to) of Rust, 0-based, for 0 <= from <= to <= Len(b)
Slice(b, from, to) == SubSeq(b, from + 1, to)

(***************************************************************************)
(* Result<Option<..>>: Ok(Some), Ok(None), Err, and a panic of the thread. *)
(***************************************************************************)
Some(v, n) == [tag |-> "Some", value |-> v, len |-> n]
None == [tag |-> "None"]
Err(m) == [tag |-> "Err", msg |-> m]
Panic(m) == [tag |-> "Panic", msg |-> m]

(***************************************************************************)
(* enum Value                                                              *)
(***************************************************************************)
VString(s) == [kind |-> "String", str |-> s]
VError(s) == [kind |-> "Error", str |-> s]
VBulk(s) == [kind |-> "Bulk", str |-> s]
VArray(items) == [kind |-> "Array", items |-> items]

(***************************************************************************)
(* Machine words.                                                          *)
(***************************************************************************)
UsizeModulus == 2 ^ WordBits
I64Max == 2 ^ (WordBits - 1) - 1
I64Min == 0 - 2 ^ (WordBits - 1)

\* `x as usize` for an i64 x
AsUsize(x) == x % UsizeModulus

\* a + b on usize: debug builds panic on overflow, release builds wrap
UsizeAdd(a, b) ==
    IF a + b >= UsizeModulus
    THEN IF overflow_checks THEN Panic("attempt to add with overflow")
         ELSE [tag |-> "Ok", n |-> (a + b) % UsizeModulus]
    ELSE [tag |-> "Ok", n |-> a + b]

(***************************************************************************)
(* String::from_utf8: the well-formed UTF-8 byte sequences.                *)
(***************************************************************************)
IsCont(b, lo, hi) == b >= lo /\ b <= hi

RECURSIVE ValidUtf8(_)
ValidUtf8(b) ==
    IF b = <<>> THEN TRUE
    ELSE LET c == b[1]
             n == Len(b)
         IN  IF c <= 127 THEN ValidUtf8(Tail(b))
             ELSE IF c >= 194 /\ c <= 223
             THEN n >= 2 /\ IsCont(b[2], 128, 191) /\ ValidUtf8(SubSeq(b, 3, n))
             ELSE IF c >= 224 /\ c <= 239
             THEN /\ n >= 3
                  /\ IsCont(b[2], IF c = 224 THEN 160 ELSE 128,
                                  IF c = 237 THEN 159 ELSE 191)
                  /\ IsCont(b[3], 128, 191)
                  /\ ValidUtf8(SubSeq(b, 4, n))
             ELSE IF c >= 240 /\ c <= 244
             THEN /\ n >= 4
                  /\ IsCont(b[2], IF c = 240 THEN 144 ELSE 128,
                                  IF c = 244 THEN 143 ELSE 191)
                  /\ IsCont(b[3], 128, 191)
                  /\ IsCont(b[4], 128, 191)
                  /\ ValidUtf8(SubSeq(b, 5, n))
             ELSE FALSE

\* fn parse_string
parse_string(bytes) ==
    IF ValidUtf8(bytes) THEN [tag |-> "Ok", str |-> bytes]
    ELSE Err("Could not parse string")

(***************************************************************************)
(* str::parse::<i64>: optional sign, at least one digit, digits only,      *)
(* checked accumulation.                                                   *)
(***************************************************************************)
IsDigit(b) == b >= 48 /\ b <= 57

\* accumulate the digits into acc, positively or negatively; "overflow" when out of range
RECURSIVE ParseDigits(_, _, _)
ParseDigits(digits, acc, negative) ==
    IF digits = <<>> THEN [tag |-> "Ok", n |-> acc]
    ELSE LET d == digits[1] - 48
             next == IF negative THEN acc * 10 - d ELSE acc * 10 + d
         IN  IF next > I64Max \/ next < I64Min THEN Err("overflow")
             ELSE ParseDigits(Tail(digits), next, negative)

ParseI64(s) ==
    IF s = <<>> THEN Err("empty")
    ELSE LET signed == s[1] = 43 \/ s[1] = 45
             digits == IF signed THEN Tail(s) ELSE s
         IN  IF digits = <<>> \/ \E i \in DOMAIN digits : ~IsDigit(digits[i])
             THEN Err("invalid digit")
             ELSE ParseDigits(digits, 0, s[1] = 45)

parse_integer_zero_default(bytes) ==
    LET str_integer == parse_string(bytes)
    IN  IF str_integer.tag = "Err" THEN str_integer
        ELSE IF ParseI64(str_integer.str).tag = "Err"
        THEN [tag |-> "Ok", n |-> 0]
        ELSE ParseI64(str_integer.str)

\* fn parse_integer
parse_integer(bytes) ==
    LET str_integer == parse_string(bytes)
    IN  IF str_integer.tag = "Err" THEN str_integer
        ELSE IF ParseI64(str_integer.str).tag = "Err"
        THEN Err("Could not parse integer")
        ELSE ParseI64(str_integer.str)

(***************************************************************************)
(* fn get_line: first CR immediately followed by LF.                       *)
(***************************************************************************)
get_line_off_by_one(buf) ==
    LET hits == {i \in 1..(Len(buf) - 1) :
                    buf[i] = CARRIAGE_RETURN /\ buf[i + 1] = NEWLINE}
    IN  IF hits = {} THEN None
        ELSE LET i == CHOOSE h \in hits : \A g \in hits : h <= g
             IN  [tag |-> "Some", line |-> SubSeq(buf, 1, i - 1), len |-> i]

get_line_last(buf) ==
    LET hits == {i \in 1..(Len(buf) - 1) :
                    buf[i] = CARRIAGE_RETURN /\ buf[i + 1] = NEWLINE}
    IN  IF hits = {} THEN None
        ELSE LET i == CHOOSE h \in hits : \A g \in hits : h >= g
             IN  [tag |-> "Some", line |-> SubSeq(buf, 1, i - 1), len |-> i + 1]

get_line(buf) ==
    LET hits == {i \in 1..(Len(buf) - 1) :
                    buf[i] = CARRIAGE_RETURN /\ buf[i + 1] = NEWLINE}
    IN  IF hits = {} THEN None
        ELSE LET i == CHOOSE h \in hits : \A g \in hits : h <= g
             IN  [tag |-> "Some", line |-> SubSeq(buf, 1, i - 1), len |-> i + 1]

(***************************************************************************)
(* The decoder.                                                            *)
(***************************************************************************)
RECURSIVE parse_message(_)
RECURSIVE decode_array_items(_, _, _, _)

decode_simple_string_no_marker(buf) ==
    LET l == get_line(Tail(buf))
    IN  IF l.tag = "Some"
        THEN LET str == parse_string(l.line)
             IN  IF str.tag = "Err" THEN str
                 ELSE Some(VString(str.str), l.len)
        ELSE None

\* fn decode_simple_string
decode_simple_string(buf) ==
    LET l == get_line(Tail(buf))
    IN  IF l.tag = "Some"
        THEN LET str == parse_string(l.line)
             IN  IF str.tag = "Err" THEN str
                 ELSE Some(VString(str.str), l.len + 1)
        ELSE None

\* the payload slice and the result of decode_bulk_string once both offsets are known
bulk_slice_unchecked(buf, bytes_consumed, end_of_bulk, end_of_bulk_line) ==
    IF end_of_bulk_line <= Len(buf) + 2
    THEN IF bytes_consumed > end_of_bulk \/ end_of_bulk > Len(buf)
         THEN Panic("slice index out of range")
         ELSE LET str == parse_string(Slice(buf, bytes_consumed, end_of_bulk))
              IN  IF str.tag = "Err" THEN str
                  ELSE Some(VBulk(str.str), end_of_bulk_line)
    ELSE None

bulk_slice(buf, bytes_consumed, end_of_bulk, end_of_bulk_line) ==
    IF end_of_bulk_line <= Len(buf)
    THEN IF bytes_consumed > end_of_bulk \/ end_of_bulk > Len(buf)
         THEN Panic("slice index out of range")
         ELSE LET str == parse_string(Slice(buf, bytes_consumed, end_of_bulk))
              IN  IF str.tag = "Err" THEN str
                  ELSE Some(VBulk(str.str), end_of_bulk_line)
    ELSE None

\* fn decode_bulk_string
decode_bulk_string(buf) ==
    LET l == get_line(Tail(buf))
    IN  IF l.tag = "Some"
        THEN LET bulk_length == parse_integer(l.line)
                 bytes_consumed == l.len + 1
             IN  IF bulk_length.tag = "Err" THEN bulk_length
                 ELSE LET end_of_bulk == UsizeAdd(bytes_consumed, AsUsize(bulk_length.n))
                      IN  IF end_of_bulk.tag = "Panic" THEN end_of_bulk
                          ELSE LET end_of_bulk_line == UsizeAdd(end_of_bulk.n, 2)
                               IN  IF end_of_bulk_line.tag = "Panic" THEN end_of_bulk_line
                                   ELSE bulk_slice(buf, bytes_consumed, end_of_bulk.n,
                                                   end_of_bulk_line.n)
        ELSE None

\* the loop `for _ in 0..array_length` of decode_array, with `remaining` iterations to go
decode_array_items(buf, remaining, items, bytes_consumed) ==
    IF remaining <= 0 THEN Some(VArray(items), bytes_consumed)
    ELSE IF bytes_consumed > Len(buf) THEN Panic("slice index out of range")
    ELSE LET child == parse_message(Slice(buf, bytes_consumed, Len(buf)))
         IN  IF child.tag = "Some"
             THEN decode_array_items(buf, remaining - 1, Append(items, child.value),
                                     bytes_consumed + child.len)
             ELSE child

decode_array_header_only(buf) ==
    LET l == get_line(Tail(buf))
    IN  IF l.tag = "Some"
        THEN LET array_length == parse_integer(l.line)
             IN  IF array_length.tag = "Err" THEN array_length
                 ELSE decode_array_items(buf, array_length.n, <<>>, l.len)
        ELSE None

\* fn decode_array
decode_array(buf) ==
    LET l == get_line(Tail(buf))
    IN  IF l.tag = "Some"
        THEN LET array_length == parse_integer(l.line)
             IN  IF array_length.tag = "Err" THEN array_length
                 ELSE decode_array_items(buf, array_length.n, <<>>, l.len + 1)
        ELSE None

parse_message_lenient(buf) ==
    IF buf = <<>> THEN Panic("index out of bounds")
    ELSE IF buf[1] = Ord("+") THEN decode_simple_string(buf)
    ELSE IF buf[1] = Ord("*") THEN decode_array(buf)
    ELSE IF buf[1] = Ord("$") THEN decode_bulk_string(buf)
    ELSE None

\* fn parse_message
parse_message(buf) ==
    IF buf = <<>> THEN Panic("index out of bounds")
    ELSE IF buf[1] = Ord("+") THEN decode_simple_string(buf)
    ELSE IF buf[1] = Ord("*") THEN decode_array(buf)
    ELSE IF buf[1] = Ord("$") THEN decode_bulk_string(buf)
    ELSE Err("unrecognised message type")

(***************************************************************************)
(* impl Value                                                              *)
(***************************************************************************)
\* fn unwrap_bulk
unwrap_bulk(v) ==
    IF v.kind = "Bulk" THEN [tag |-> "Ok", str |-> v.str]
    ELSE Panic("not a bulk string")

to_command_keeps_first(v) ==
    IF v.kind = "Array"
    THEN IF v.items = <<>>
         THEN Panic("called Option::unwrap on a None value")
         ELSE IF unwrap_bulk(v.items[1]).tag = "Panic" THEN unwrap_bulk(v.items[1])
         ELSE [tag |-> "Ok", name |-> unwrap_bulk(v.items[1]).str, args |-> v.items]
    ELSE Err("not an array")

\* fn to_command
to_command(v) ==
    IF v.kind = "Array"
    THEN IF v.items = <<>>
         THEN Panic("called Option::unwrap on a None value")
         ELSE IF unwrap_bulk(v.items[1]).tag = "Panic" THEN unwrap_bulk(v.items[1])
         ELSE [tag |-> "Ok", name |-> unwrap_bulk(v.items[1]).str, args |-> Tail(v.items)]
    ELSE Err("not an array")

\* Display of an unsigned integer n, as format! writes it
RECURSIVE ToDecimal(_)
ToDecimal(n) ==
    IF n < 10 THEN <<48 + n>> ELSE Append(ToDecimal(n \div 10), 48 + (n % 10))

\* s.chars().count(): the bytes that are not UTF-8 continuation bytes
CharsCount(s) == Cardinality({i \in DOMAIN s : ~IsCont(s[i], 128, 191)})

\* fn encode
encode(v) ==
    IF v.kind = "String"
    THEN [tag |-> "Ok", bytes |-> <<Ord("+")>> \o v.str \o CRLF]
    ELSE IF v.kind = "Error"
    THEN [tag |-> "Ok", bytes |-> <<Ord("-")>> \o v.str \o CRLF]
    ELSE IF v.kind = "Bulk"
    THEN [tag |-> "Ok", bytes |-> <<Ord("$")>> \o ToDecimal(CharsCount(v.str)) \o CRLF
                                    \o v.str \o CRLF]
    ELSE Panic("value encode not implemented")

(***************************************************************************)
(* The wire format of the protocol, used to build the peer's messages:     *)
(*   + text CR LF | $ byte-length CR LF text CR LF | * count CR LF items   *)
(***************************************************************************)
SignedDecimal(n) == IF n < 0 THEN <<Ord("-")>> \o ToDecimal(0 - n) ELSE ToDecimal(n)

RECURSIVE Wire(_)
RECURSIVE WireAll(_)
Wire(v) ==
    IF v.kind = "String" THEN <<Ord("+")>> \o v.str \o CRLF
    ELSE IF v.kind = "Error" THEN <<Ord("-")>> \o v.str \o CRLF
    ELSE IF v.kind = "Bulk"
    THEN <<Ord("$")>> \o ToDecimal(Len(v.str)) \o CRLF \o v.str \o CRLF
    ELSE <<Ord("*")>> \o ToDecimal(Len(v.items)) \o CRLF \o WireAll(v.items)

WireAll(items) ==
    IF items = <<>> THEN <<>> ELSE Wire(items[1]) \o WireAll(Tail(items))

BulkInput(L, tail) == <<Ord("$")>> \o SignedDecimal(L) \o CRLF \o tail

SeqsUpTo(S, n) == UNION {[1..k -> S] : k \in 0..n}

Prefixes(m) == {SubSeq(m, 1, k) : k \in 0..Len(m)}

NoCrLf(t) == \A i \in 1..(Len(t) - 1) : ~(t[i] = CARRIAGE_RETURN /\ t[i + 1] = NEWLINE)

(***************************************************************************)
(* The inputs of the harnesses.                                            *)
(***************************************************************************)
TextA == Bytes(<<"a">>)
TextX == Bytes(<<"x">>)

Texts == {<<>>, TextA, TextX, Bytes(<<"a", "b">>), Bytes(<<"C3", "A9">>),
          Bytes(<<"a", "CR", "LF", "b">>)}

Arrays == {VArray(<<>>),
           VArray(<<VBulk(TextA)>>),
           VArray(<<VBulk(TextA), VBulk(TextX)>>),
           VArray(<<VString(TextX)>>),
           VArray(<<VString(TextX), VBulk(TextA)>>),
           VArray(<<VArray(<<>>)>>),
           VArray(<<VArray(<<VBulk(TextA)>>), VString(TextX)>>),
           VArray(<<VBulk(TextA), VArray(<<VBulk(TextX), VString(TextA)>>)>>)}

Values == {VString(t) : t \in Texts} \cup {VError(t) : t \in Texts}
          \cup {VBulk(t) : t \in Texts} \cup Arrays

\* the values whose wire form the decoder is fed: simple strings without CR LF, bulks, arrays
WireValues == {VString(t) : t \in {u \in Texts : NoCrLf(u)}}
              \cup {VBulk(t) : t \in Texts} \cup Arrays

Trailers == {<<>>, TextA, Bytes(<<"+", "a", "CR", "LF">>), Bytes(<<"CR", "LF">>),
             Bytes(<<"LF">>), Bytes(<<"*">>), Bytes(<<"FF">>), Bytes(<<"$", "1", "CR">>)}

Alphabet == {Ord("+"), Ord("*"), Ord("$"), Ord("-"), Ord("0"), Ord("1"),
             CARRIAGE_RETURN, NEWLINE, Ord("a")}

TailAlphabet == {Ord("a"), CARRIAGE_RETURN, NEWLINE, Ord("FF")}

BulkLengths == ((0 - 3)..MaxTail) \cup {I64Max}

ShortInputs == SeqsUpTo(Alphabet, MaxLen) \ {<<>>}

BulkInputs == {BulkInput(L, t) : L \in BulkLengths, t \in SeqsUpTo(TailAlphabet, MaxTail)}

WireInputs == UNION {(Prefixes(Wire(v)) \ {<<>>}) \cup {Wire(v) \o t : t \in Trailers}
                        : v \in WireValues}

\* a byte that is no type marker, alone or at the head of a line
BadMarkers == {Bytes(<<"%">>), Bytes(<<"%", "x", "CR", "LF">>), Bytes(<<"-", "a", "CR", "LF">>),
               Bytes(<<"a">>), <<CARRIAGE_RETURN>>}

ArrayHeader(n) == <<Ord("*")>> \o ToDecimal(n) \o CRLF

\* arrays in which a child starts with such a byte, after the complete children before it
BadChildInputs ==
    {ArrayHeader(Len(good) + 1 + more) \o WireAll(good) \o bad :
        good \in {<<>>, <<VBulk(TextA)>>, <<VString(TextX), VArray(<<>>)>>},
        more \in {0, 1}, bad \in BadMarkers}
    \cup {ArrayHeader(1) \o ArrayHeader(1) \o bad : bad \in BadMarkers}

\* lines that are no base-10 signed integer: empty, non-digits, not well-formed UTF-8
BadLines == {<<>>, Bytes(<<"a">>), Bytes(<<"1", "a">>), Bytes(<<"-">>), Bytes(<<"+">>),
             Bytes(<<"1", "-">>), Bytes(<<"FF">>), Bytes(<<"C3">>), Bytes(<<"1", "FF">>)}

LineTails == {<<>>, TextA, Bytes(<<"$", "1", "CR", "LF", "a", "CR", "LF">>)}

LengthMarkers == {Ord("*"), Ord("$")}

\* a length line that is no integer, with its terminator and without it
BadLineInputs ==
    {<<m>> \o line \o CRLF \o tail : m \in LengthMarkers, line \in BadLines, tail \in LineTails}
    \cup {<<m>> \o line \o cr : m \in LengthMarkers, line \in BadLines,
                                 cr \in {<<>>, <<CARRIAGE_RETURN>>}}

Inputs == ShortInputs \cup BulkInputs \cup WireInputs \cup BadChildInputs \cup BadLineInputs

NotRun == [tag |-> "NotRun"]

(***************************************************************************)
(* Decoder harness: parse_message applied to a buffer.                     *)
(***************************************************************************)
connVars == <<wire, sent, buffer, pc, result, last_parse, reads, unconsumed,
              returned, written, wresult, wvalue, writes>>
parseVars == <<input, parsed, scanned>>
valueVars == <<val, encoded, command, decoded>>

ConnIdle ==
    /\ wire = <<>> /\ sent = <<>> /\ buffer = <<>> /\ pc = "idle"
    /\ result = NotRun /\ last_parse = NotRun /\ reads = 0
    /\ unconsumed = <<>> /\ returned = <<>> /\ written = <<>>
    /\ wresult = NotRun /\ wvalue = NotRun /\ writes = 0

ParseIdle == input = <<>> /\ parsed = NotRun /\ scanned = NotRun

ValueIdle == val = NotRun /\ encoded = NotRun /\ command = NotRun /\ decoded = NotRun

InitParse ==
    /\ overflow_checks \in BOOLEAN
    /\ input \in Inputs
    /\ parsed = NotRun
    /\ scanned = NotRun
    /\ ConnIdle
    /\ ValueIdle

ParseMessage ==
    /\ parsed = NotRun
    /\ parsed' = parse_message(input)
    /\ UNCHANGED <<overflow_checks, input, scanned, connVars, valueVars>>

\* get_line applied as the decoders apply it: to &buffer[1..], the bytes after the marker
GetLine ==
    /\ scanned = NotRun
    /\ scanned' = get_line(Tail(input))
    /\ UNCHANGED <<overflow_checks, input, parsed, connVars, valueVars>>

NextParse == ParseMessage \/ GetLine

SpecParse == InitParse /\ [][NextParse]_vars

(***************************************************************************)
(* Value harness: encode, to_command, and decoding of the encoding.        *)
(***************************************************************************)
InitValue ==
    /\ overflow_checks \in BOOLEAN
    /\ val \in Values
    /\ encoded = NotRun /\ command = NotRun /\ decoded = NotRun
    /\ ConnIdle
    /\ ParseIdle

Encode ==
    /\ encoded = NotRun
    /\ encoded' = encode(val)
    /\ UNCHANGED <<overflow_checks, val, command, decoded, connVars, parseVars>>

ToCommand ==
    /\ command = NotRun
    /\ command' = to_command(val)
    /\ UNCHANGED <<overflow_checks, val, encoded, decoded, connVars, parseVars>>

Decode ==
    /\ encoded.tag = "Ok"
    /\ decoded = NotRun
    /\ decoded' = parse_message(encoded.bytes)
    /\ UNCHANGED <<overflow_checks, val, encoded, command, connVars, parseVars>>

NextValue == Encode \/ ToCommand \/ Decode

SpecValue == InitValue /\ [][NextValue]_vars

(***************************************************************************)
(* The connection: struct RespConnection, read_value and write_value.      *)
(***************************************************************************)
Messages == {Wire(VString(TextA)), Wire(VBulk(TextA)), Wire(VArray(<<VBulk(TextA)>>))}

\* what a peer sends before it closes: up to two messages, possibly cut short
Streams == UNION {Prefixes(m1 \o m2) : m1 \in Messages, m2 \in Messages \cup {<<>>}}

ReplyValues == {VString(TextA), VError(TextX), VBulk(TextA), VArray(<<>>),
                VArray(<<VBulk(TextA)>>)}

\* BytesMut::split: hands out every byte of the buffer and leaves the buffer empty
split(buf) == [taken |-> buf, rest |-> <<>>]

Init ==
    /\ overflow_checks \in BOOLEAN
    /\ wire \in Streams
    /\ sent = wire
    /\ buffer = <<>> /\ pc = "idle"
    /\ result = NotRun /\ last_parse = NotRun /\ reads = 0
    /\ unconsumed = <<>> /\ returned = <<>> /\ written = <<>>
    /\ wresult = NotRun /\ wvalue = NotRun /\ writes = 0
    /\ ParseIdle
    /\ ValueIdle

\* the connection is still served: no call has failed, ended the stream or panicked
Alive ==
    /\ pc # "panicked"
    /\ result.tag \in {"NotRun", "Value"}
    /\ wresult.tag \in {"NotRun", "Ok"}

\* the caller invokes read_value, which enters its loop and awaits the stream
CallReadValue ==
    /\ Alive /\ pc = "idle"
    /\ pc' = "reading"
    /\ reads' = 0
    /\ last_parse' = NotRun
    /\ UNCHANGED <<overflow_checks, wire, sent, buffer, result, unconsumed, returned,
                   written, wresult, wvalue, writes, parseVars, valueVars>>

\* one iteration of the loop in which read_buf appends n > 0 bytes to the buffer
ReadChunk(n) ==
    /\ pc = "reading"
    /\ n \in 1..Len(wire)
    /\ LET chunk == SubSeq(wire, 1, n)
           filled == buffer \o chunk
           msg == parse_message(split(filled).taken)
           seen == unconsumed \o chunk
       IN  /\ wire' = SubSeq(wire, n + 1, Len(wire))
           /\ buffer' = split(filled).rest
           /\ reads' = reads + 1
           /\ last_parse' = msg
           /\ IF msg.tag = "Some"
              THEN /\ result' = [tag |-> "Value", value |-> msg.value]
                   /\ pc' = "idle"
                   /\ returned' = Append(returned, msg.value)
                   /\ unconsumed' = SubSeq(seen, msg.len + 1, Len(seen))
              ELSE /\ unconsumed' = seen
                   /\ returned' = returned
                   /\ IF msg.tag = "None"
                      THEN pc' = "reading" /\ result' = result
                      ELSE IF msg.tag = "Err"
                      THEN pc' = "idle" /\ result' = msg
                      ELSE pc' = "panicked" /\ result' = msg
    /\ UNCHANGED <<overflow_checks, sent, written, wresult, wvalue, writes,
                   parseVars, valueVars>>

\* one iteration of the loop in which read_buf reads 0 bytes: the peer has closed
ReadEof ==
    /\ pc = "reading"
    /\ wire = <<>>
    /\ result' = IF buffer = <<>> THEN [tag |-> "Eof"]
                 ELSE Err("connection closed unexpectedly")
    /\ pc' = "idle"
    /\ UNCHANGED <<overflow_checks, wire, sent, buffer, last_parse, reads, unconsumed,
                   returned, written, wresult, wvalue, writes, parseVars, valueVars>>

\* read_buf fails: the `?` returns the I/O error
ReadError ==
    /\ pc = "reading"
    /\ result' = Err("io")
    /\ pc' = "idle"
    /\ UNCHANGED <<overflow_checks, wire, sent, buffer, last_parse, reads, unconsumed,
                   returned, written, wresult, wvalue, writes, parseVars, valueVars>>

\* write_value: encode, then one stream.write which accepts n bytes of the encoding
WriteValue(value, n) ==
    /\ Alive /\ pc = "idle"
    /\ writes < MaxWrites
    /\ writes' = writes + 1
    /\ wvalue' = value
    /\ LET enc == encode(value)
       IN  IF enc.tag = "Panic"
           THEN /\ n = 1
                /\ wresult' = enc
                /\ pc' = "panicked"
                /\ written' = written
           ELSE /\ n \in 1..Len(enc.bytes)
                /\ wresult' = [tag |-> "Ok"]
                /\ pc' = pc
                /\ written' = written \o SubSeq(enc.bytes, 1, n)
    /\ UNCHANGED <<overflow_checks, wire, sent, buffer, result, last_parse, reads,
                   unconsumed, returned, parseVars, valueVars>>

\* write_value when stream.write fails: the `?` returns the I/O error
WriteError(value) ==
    /\ Alive /\ pc = "idle"
    /\ writes < MaxWrites
    /\ encode(value).tag = "Ok"
    /\ writes' = writes + 1
    /\ wvalue' = value
    /\ wresult' = Err("io")
    /\ UNCHANGED <<overflow_checks, wire, sent, buffer, pc, result, last_parse, reads,
                   unconsumed, returned, written, parseVars, valueVars>>

Next ==
    \/ CallReadValue
    \/ \E n \in 1..Len(wire) : ReadChunk(n)
    \/ ReadEof
    \/ ReadError
    \/ \E value \in ReplyValues, n \in 1..8 : WriteValue(value, n)
    \/ \E value \in ReplyValues : WriteError(value)

Spec == Init /\ [][Next]_vars

(***************************************************************************)
(* Properties of the value model and of the decoder.                       *)
(***************************************************************************)
IsPrefix(p, b) == Len(p) <= Len(b) /\ SubSeq(b, 1, Len(p)) = p

\* printable text without CR or LF: well-formed UTF-8 with no control character
Printable(t) == ValidUtf8(t) /\ \A i \in DOMAIN t : t[i] >= 32 /\ t[i] # 127

\* the number of bytes of the wire form of v: marker, header line, payload and children
RECURSIVE WireLen(_)
RECURSIVE WireLenAll(_)
WireLen(v) ==
    IF v.kind = "Array"
    THEN 1 + Len(ToDecimal(Len(v.items))) + 2 + WireLenAll(v.items)
    ELSE IF v.kind = "Bulk"
    THEN 1 + Len(ToDecimal(Len(v.str))) + 2 + Len(v.str) + 2
    ELSE 1 + Len(v.str) + 2

WireLenAll(items) ==
    IF items = <<>> THEN 0 ELSE WireLen(items[1]) + WireLenAll(Tail(items))

\* C4: decode(encode(v)) = v, consuming the whole encoding, for every SimpleString,
\* ErrorValue and BulkString v of printable, CR/LF-free text.
C4_RoundTrip ==
    (decoded # NotRun /\ val.kind \in {"String", "Error", "Bulk"} /\ Printable(val.str))
        => decoded = Some(val, Len(encoded.bytes))

\* C5: to_command returns an error, and does not panic, for every Value that is not a
\* non-empty Array whose first element is a BulkString.
IsCommandShape(v) ==
    v.kind = "Array" /\ v.items # <<>> /\ v.items[1].kind = "Bulk"

C5_ToCommandTyped ==
    (command # NotRun /\ ~IsCommandShape(val)) => command.tag = "Err"

\* C7: parse_message of any buffer returns a value with its consumed count, incomplete,
\* or an error; it never panics.
C7_ParseNeverAborts ==
    parsed # NotRun => parsed.tag \in {"Some", "None", "Err"}

\* C8: the wire form of an array of count complete values decodes to the Array of exactly
\* those values in order, and the consumed count is the header line span plus the bytes
\* of every child, at every nesting depth.
C8_ArrayDecode ==
    \A v \in Arrays :
        (parsed # NotRun /\ input = Wire(v)) => parsed = Some(v, WireLen(v))

C8_Witness ==
    /\ input = Wire(VArray(<<VBulk(TextA), VArray(<<VBulk(TextX), VString(TextA)>>)>>))
    /\ parsed.tag = "Some"

\* C9: "+" t CR LF, t well-formed text without a CR LF pair, decodes to SimpleString(t)
\* consuming Len(t) + 3 bytes; a buffer "+"... with no CR LF pair is incomplete.
C9_SimpleString ==
    parsed # NotRun /\ input[1] = Ord("+") =>
        LET n == Len(input)
            t == SubSeq(input, 2, n - 2)
        IN  /\ (n >= 3 /\ SubSeq(input, n - 1, n) = CRLF /\ NoCrLf(t) /\ ValidUtf8(t))
                 => parsed = Some(VString(t), Len(t) + 3)
            /\ NoCrLf(Tail(input)) => parsed = None

C9_Witness ==
    /\ input = Bytes(<<"+", "a", "CR", "CR", "LF">>) \/ input = Bytes(<<"+", "a", "CR", "LF">>)
    /\ parsed.tag = "Some"

\* C10: a bulk string of declared length L that decodes yields the L bytes after the
\* length line and consumes (length line span, marker included) + L + 2 bytes; with a
\* length L >= 0 and a buffer shorter than that, the decode is incomplete.
C10_BulkConsumed ==
    \A L \in BulkLengths :
        LET header == BulkInput(L, <<>>)
            span == Len(header)
        IN  (parsed # NotRun /\ IsPrefix(header, input)) =>
                /\ parsed.tag = "Some" =>
                     /\ parsed.value = VBulk(SubSeq(input, span + 1, span + L))
                     /\ parsed.len = span + L + 2
                /\ (L >= 0 /\ Len(input) < span + L + 2) => parsed = None

C10_Witness ==
    /\ input = BulkInput(2, Bytes(<<"a", "a", "CR", "LF">>))
    /\ parsed = Some(VBulk(Bytes(<<"a", "a">>)), 8)

(***************************************************************************)
(* Properties of the connection.                                           *)
(***************************************************************************)
\* the values of the messages of the model, by their wire form
ValueOf(m) == CHOOSE v \in WireValues : Wire(v) = m

Received == SubSeq(sent, 1, Len(sent) - Len(wire))

\* C1: when a valid message arrives in two stream reads, the parse after the first read
\* is incomplete and the first chunk stays in the connection buffer, and the same
\* read_value call returns the complete value after the second read.
C1_SplitMessage ==
    (sent \in Messages /\ returned = <<>> /\ result # Err("io")) =>
        /\ (reads = 1 /\ wire # <<>>) =>
              pc = "reading" /\ last_parse = None /\ buffer = Received
        /\ (reads = 2 /\ wire = <<>>) =>
              result = [tag |-> "Value", value |-> ValueOf(sent)]

\* C2: when read_value returns a value, the bytes it consumed are removed from the
\* front of the buffer and every trailing byte stays in it; two messages delivered by
\* one stream read are returned by two successive calls.
C2_TrailingBytesKept ==
    /\ (pc = "idle" /\ result.tag = "Value") => buffer = unconsumed
    /\ \A m1 \in Messages, m2 \in Messages :
          (sent = m1 \o m2 /\ result.tag = "Eof") => returned = <<ValueOf(m1), ValueOf(m2)>>

\* C3: read_value returns clean end-of-stream only when no unconsumed bytes have been
\* received; a close after bytes that form no complete value fails with
\* ConnectionClosedUnexpectedly.
C3_CloseMidMessage ==
    /\ result.tag = "Eof" => unconsumed = <<>>
    /\ result = Err("connection closed unexpectedly") => unconsumed # <<>>

\* C6: write_value of an Array returns an error, does not panic, and writes nothing.
C6_ArrayEncodeTyped ==
    (wvalue # NotRun /\ wvalue.kind = "Array") => wresult.tag = "Err" /\ written = <<>>

\* C11: to_command on an Array whose first element is BulkString(name) returns name and
\* the remaining elements in their order (none for a one-element array), and leaves the
\* Value as it was.
C11_ToCommandResult ==
    [][(command' # command /\ IsCommandShape(val)) =>
          /\ command' = [tag |-> "Ok", name |-> val.items[1].str,
                         args |-> SubSeq(val.items, 2, Len(val.items))]
          /\ val' = val]_vars

C11_Witness ==
    /\ val = VArray(<<VBulk(TextA), VBulk(TextX)>>)
    /\ command = [tag |-> "Ok", name |-> TextA, args |-> <<VBulk(TextX)>>]

\* C12: a buffer whose first byte is none of "+", "*", "$" fails with the unrecognised
\* message type error whatever follows, at top level and as a child inside an array.
C12_UnrecognisedMarker ==
    parsed # NotRun =>
        /\ input[1] \notin {Ord("+"), Ord("*"), Ord("$")}
             => parsed = Err("unrecognised message type")
        /\ input \in BadChildInputs => parsed = Err("unrecognised message type")

C12_Witness ==
    /\ input = ArrayHeader(1) \o Bytes(<<"%", "x", "CR", "LF">>)
    /\ parsed = Err("unrecognised message type")

\* C13: for every valid message m and every non-empty proper prefix p of m,
\* parse_message(p) is incomplete: not an error, not a panic, not a value.
C13_PrefixIncomplete ==
    \A v \in WireValues :
        (parsed # NotRun /\ IsPrefix(input, Wire(v)) /\ input # Wire(v)) => parsed = None

IsSuffix(s, b) == Len(s) <= Len(b) /\ SubSeq(b, Len(b) - Len(s) + 1, Len(b)) = s

\* C14: when write_value returns success, every byte of value.encode() has been written
\* to the stream, in order, also when the transport accepts fewer bytes than offered.
C14_WritesWholeEncoding ==
    wresult.tag = "Ok" => IsSuffix(encode(wvalue).bytes, written)

\* C15: the length encode() writes after "$" is the number of payload bytes it emits.
C15_BulkLengthIsByteLength ==
    (encoded # NotRun /\ val.kind = "Bulk") =>
        encoded = [tag |-> "Ok",
                   bytes |-> <<Ord("$")>> \o ToDecimal(Len(val.str)) \o CRLF \o val.str \o CRLF]

\* C16 as stated: a terminated line after "*" or "$" that is no base-10 signed integer
\* (empty, non-digits, invalid UTF-8) fails with the integer error; without the
\* terminator the decode is incomplete.
C16_InvalidIntegerAsStated ==
    parsed # NotRun =>
        /\ \A m \in LengthMarkers, line \in BadLines, tail \in LineTails :
              input = <<m>> \o line \o CRLF \o tail
                 => parsed = Err("Could not parse integer")
        /\ (input[1] \in LengthMarkers /\ NoCrLf(Tail(input))) => parsed = None

\* C16 amended: such a line fails with the integer error when it is well-formed UTF-8
\* and with the string error when it is not; it yields neither incomplete nor a value;
\* without the terminator the decode is incomplete.
C16_InvalidInteger ==
    parsed # NotRun =>
        /\ \A m \in LengthMarkers, line \in BadLines, tail \in LineTails :
              input = <<m>> \o line \o CRLF \o tail
                 => parsed = IF ValidUtf8(line) THEN Err("Could not parse integer")
                             ELSE Err("Could not parse string")
        /\ (input[1] \in LengthMarkers /\ NoCrLf(Tail(input))) => parsed = None

C16_Witness ==
    /\ input = Bytes(<<"$", "1", "a", "CR", "LF", "a">>)
    /\ parsed = Err("Could not parse integer")

\* C17: bytes after the first complete value change nothing: for a valid message m of
\* value v and any bytes t, parse_message(m t) is v with Len(m) consumed; every success
\* consumes more than 0 and at most Len(buffer) bytes.
C17_TrailingBytesIgnored ==
    parsed # NotRun =>
        /\ \A v \in WireValues :
              IsPrefix(Wire(v), input) => parsed = Some(v, Len(Wire(v)))
        /\ parsed.tag = "Some" => (0 < parsed.len /\ parsed.len <= Len(input))

C17_Witness ==
    /\ input = Wire(VArray(<<VString(TextX), VBulk(TextA)>>)) \o Bytes(<<"CR", "LF">>)
    /\ parsed.tag = "Some"
    /\ parsed.len < Len(input)

\* C18: for every declared bulk length that parses as an integer, negative ones and the
\* largest included, the offsets end = offset after the length line + length and end + 2
\* stay within the machine word, and the decode takes no slice outside the buffer.
C18_BulkOffsetsInRange ==
    \A L \in BulkLengths :
        LET header == BulkInput(L, <<>>)
        IN  (parsed # NotRun /\ IsPrefix(header, input)) =>
                /\ Len(header) + AsUsize(L) + 2 < UsizeModulus
                /\ parsed.tag # "Panic"

\* C19: a read_value call that has stopped reading has returned a value, clean
\* end-of-stream or an error.
C19_ReadValueReturns ==
    pc # "reading" => result.tag \in {"NotRun", "Value", "Eof", "Err"}

\* C20: get_line returns the bytes strictly before the first CR immediately followed by
\* LF, with a span of that many bytes plus 2, and reports not found exactly when the
\* buffer holds no such adjacent pair.
C20_GetLine ==
    scanned # NotRun =>
        LET b == Tail(input)
        IN  /\ scanned.tag \in {"Some", "None"}
            /\ scanned.tag = "None" <=> NoCrLf(b)
            /\ scanned.tag = "Some" =>
                 /\ IsPrefix(scanned.line \o CRLF, b)
                 /\ NoCrLf(scanned.line \o <<CARRIAGE_RETURN>>)
                 /\ scanned.len = Len(scanned.line) + 2

C20_Witness ==
    /\ input = Bytes(<<"+", "LF", "CR", "CR", "LF">>) \/ input = Bytes(<<"+", "CR", "CR", "LF">>)
    /\ scanned.tag = "Some"
    /\ scanned.len = Len(input) - 1

====
